---- MODULE Spec2Model ----
(***************************************************************************)
(* html2gemini: rendering of a parsed HTML tree into gemtext.              *)
(*                                                                         *)
(* The repository holds two variants of the renderer:                      *)
(*   variant 1  src/html2gemini.go  (package-level linkAccumulator,        *)
(*              FromHTMLNode(doc, o ...Options))                           *)
(*   variant 2  the listing in src/README.md (accumulator inside           *)
(*              TextifyTraverseContext, NewTraverseContext, peek-ahead for *)
(*              li and p, FromHTMLNode(doc, ctx))                          *)
(* Both are modelled; the variable `variant` says which one a behaviour    *)
(* runs.  Text is a sequence of one-character strings.  The recursive walk *)
(* is run as a stack machine: `tasks` is the continuation, `ctxs` the      *)
(* stack of render contexts (top-level render, cell sub-renders, scratch   *)
(* contexts of the peek-ahead).                                            *)
(***************************************************************************)
EXTENDS Integers, Sequences, FiniteSets, TLC

\* ------------------------------------------------------------------------
\* Characters and strings
\* ------------------------------------------------------------------------
NL == "\n"
SP == " "
TAB == "\t"

\* characters a TLA+ string cannot hold are written as named tokens
BT == "BACKTICK"
DAGGER == "DAGGER"
BOXPLUS == "BOXPLUS"

\* unicode.IsSpace restricted to the characters of the model's alphabet
IsSpace(ch) == ch \in {SP, NL, TAB, "\r"}

Last(s) == s[Len(s)]

Drop(s, n) == SubSeq(s, n + 1, Len(s))

\* concatenation of the sequences ss[lo..hi], split in halves
RECURSIVE ConcatRange(_, _, _)
ConcatRange(ss, lo, hi) ==
    IF lo > hi THEN <<>>
    ELSE IF lo = hi THEN ss[lo]
    ELSE ConcatRange(ss, lo, (lo + hi) \div 2)
         \o ConcatRange(ss, (lo + hi) \div 2 + 1, hi)

Concat(ss) == ConcatRange(ss, 1, Len(ss))

HasPrefixAt(s, i, p) ==
    /\ i + Len(p) - 1 <= Len(s)
    /\ \A k \in 1..Len(p) : s[i + k - 1] = p[k]

HasPrefix(s, p) == HasPrefixAt(s, 1, p)

Contains(s, p) == \E i \in 1..(Len(s) - Len(p) + 1) : HasPrefixAt(s, i, p)

\* smallest element of a non-empty set of integers
MinOf(S) == CHOOSE x \in S : \A y \in S : x <= y

MaxOf(S) == CHOOSE x \in S : \A y \in S : y <= x

\* strings.TrimSpace
TrimLeft(s) ==
    IF \A i \in 1..Len(s) : IsSpace(s[i]) THEN <<>>
    ELSE Drop(s, MinOf({i \in 1..Len(s) : ~IsSpace(s[i])}) - 1)

TrimRight(s) ==
    IF \A i \in 1..Len(s) : IsSpace(s[i]) THEN <<>>
    ELSE SubSeq(s, 1, MaxOf({i \in 1..Len(s) : ~IsSpace(s[i])}))

TrimSpace(s) == TrimRight(TrimLeft(s))

\* strings.TrimPrefix
TrimPrefix(s, p) == IF HasPrefix(s, p) THEN Drop(s, Len(p)) ELSE s

\* strings.Index, 1-based, 0 when old does not occur
Index(s, old) ==
    IF Contains(s, old)
    THEN MinOf({i \in 1..(Len(s) - Len(old) + 1) : HasPrefixAt(s, i, old)})
    ELSE 0

\* strings.ReplaceAll / strings.Replace(s, old, new, -1), old non-empty:
\* leftmost non-overlapping occurrences, one step per occurrence
RECURSIVE ReplaceAll(_, _, _)
ReplaceAll(s, old, new) ==
    IF Index(s, old) = 0 THEN s
    ELSE (SubSeq(s, 1, Index(s, old) - 1) \o new)
         \o ReplaceAll(Drop(s, Index(s, old) + Len(old) - 1), old, new)

\* number of leading characters of s equal to ch
SpanChar(s, ch) ==
    IF \A i \in 1..Len(s) : s[i] = ch THEN Len(s)
    ELSE MinOf({i \in 1..Len(s) : s[i] # ch}) - 1

\* spacingRe = `[ \r\n\t]+`, ReplaceAllString(s, " "): the first character of
\* a run of white space becomes a space, the others go
spacingReReplace(s) ==
    Concat([i \in 1..Len(s) |->
               IF ~IsSpace(s[i]) THEN <<s[i]>>
               ELSE IF i = 1 \/ ~IsSpace(s[i - 1]) THEN <<SP>>
               ELSE <<>>])

\* newlineRe = `\n\n+`, ReplaceAllString(s, "\n\n"): of a run of newlines the
\* first two stay
newlineReReplace(s) ==
    Concat([i \in 1..Len(s) |->
               IF s[i] = NL /\ i >= 3 /\ s[i - 1] = NL /\ s[i - 2] = NL
               THEN <<>> ELSE <<s[i]>>])

\* length of the match of `\n *\n+> \n` at position i of s, 0 when none
startQuoteMatch(s, i) ==
    IF i > Len(s) \/ s[i] # NL THEN 0
    ELSE LET a == 1 + SpanChar(Drop(s, i), SP)
             b == SpanChar(Drop(s, i + a - 1), NL)
         IN IF b >= 1 /\ HasPrefixAt(s, i + a + b, <<">", SP, NL>>)
            THEN a + b + 3 ELSE 0

\* length of the match of `\n> \n\n+` at position i of s, 0 when none
endQuoteMatch(s, i) ==
    IF HasPrefixAt(s, i, <<NL, ">", SP, NL>>) /\ SpanChar(Drop(s, i + 3), NL) >= 1
    THEN 4 + SpanChar(Drop(s, i + 3), NL) ELSE 0

\* ReplaceAllString(s, "\n\n") of the two blockquote patterns: leftmost
\* match first, one step per match
RECURSIVE startQuoteReplace(_)
startQuoteReplace(s) ==
    IF \A i \in 1..Len(s) : startQuoteMatch(s, i) = 0 THEN s
    ELSE LET i == MinOf({j \in 1..Len(s) : startQuoteMatch(s, j) > 0})
         IN (SubSeq(s, 1, i - 1) \o <<NL, NL>>)
            \o startQuoteReplace(Drop(s, i + startQuoteMatch(s, i) - 1))

RECURSIVE endQuoteReplace(_)
endQuoteReplace(s) ==
    IF \A i \in 1..Len(s) : endQuoteMatch(s, i) = 0 THEN s
    ELSE LET i == MinOf({j \in 1..Len(s) : endQuoteMatch(s, j) > 0})
         IN (SubSeq(s, 1, i - 1) \o <<NL, NL>>)
            \o endQuoteReplace(Drop(s, i + endQuoteMatch(s, i) - 1))

\* number of occurrences of the character ch
CountChar(s, ch) == Cardinality({i \in 1..Len(s) : s[i] = ch})

\* len(strings.Split(s, " "))
SplitLen(s) == CountChar(s, SP) + 1

\* strings.Split(s, "\n"): the k-th line lies between the (k-1)-th and the
\* k-th newline
NewlineAt(s, k) ==
    IF k = 0 THEN 0
    ELSE IF k > CountChar(s, NL) THEN Len(s) + 1
    ELSE CHOOSE i \in 1..Len(s) :
             s[i] = NL /\ Cardinality({j \in 1..i : s[j] = NL}) = k

Lines(s) ==
    [k \in 1..(CountChar(s, NL) + 1) |->
        SubSeq(s, NewlineAt(s, k - 1) + 1, NewlineAt(s, k) - 1)]

\* strings.Repeat
RECURSIVE Repeat(_, _)
Repeat(p, n) == IF n <= 0 THEN <<>> ELSE p \o Repeat(p, n - 1)

\* fmt.Sprintf("%d", n) for n >= 0
Digit(d) == <<"0", "1", "2", "3", "4", "5", "6", "7", "8", "9">>[d + 1]

RECURSIVE Itoa(_)
Itoa(n) == IF n < 10 THEN <<Digit(n)>> ELSE Itoa(n \div 10) \o <<Digit(n % 10)>>

\* ------------------------------------------------------------------------
\* Input: the parsed node tree (html.Node), read-only
\* ------------------------------------------------------------------------
Node(type, atom, data, href, src, alt, kids) ==
    [type |-> type, atom |-> atom, data |-> data,
     href |-> href, src |-> src, alt |-> alt, kids |-> kids]

Tx(data) == Node("text", "", data, <<>>, <<>>, <<>>, <<>>)
El(atom, kids) == Node("elem", atom, <<>>, <<>>, <<>>, <<>>, kids)
Anchor(href, kids) == Node("elem", "a", <<>>, href, <<>>, <<>>, kids)
Image(src, alt) == Node("elem", "img", <<>>, <<>>, src, alt, <<>>)
Document(kids) == Node("doc", "", <<>>, <<>>, <<>>, <<>>, kids)

\* the node reached from n by the child indices of path
RECURSIVE NodeAt(_, _)
NodeAt(n, path) ==
    IF path = <<>> THEN n ELSE NodeAt(n.kids[Head(path)], Tail(path))

ChildPaths(n, path) == [i \in 1..Len(n.kids) |-> Append(path, i)]

\* ------------------------------------------------------------------------
\* Options, accumulator, table context, render context
\* ------------------------------------------------------------------------
\* the zero value of Options (Go zero values)
ZeroOptions ==
    [PrettyTables |-> FALSE, OmitLinks |-> FALSE, CitationStart |-> 0,
     CitationMarkers |-> FALSE, LinkEmitFrequency |-> 0, NumberedLinks |-> FALSE,
     EmitImagesAsLinks |-> FALSE, ImageMarkerPrefix |-> <<>>,
     EmptyLinkPrefix |-> <<>>, ListItemToLinkWordThreshold |-> 0]

NewOptions ==
    [PrettyTables |-> FALSE, OmitLinks |-> FALSE, CitationStart |-> 1,
     CitationMarkers |-> TRUE, LinkEmitFrequency |-> 2, NumberedLinks |-> TRUE,
     EmitImagesAsLinks |-> TRUE, ImageMarkerPrefix |-> <<DAGGER>>,
     EmptyLinkPrefix |-> <<">", ">">>, ListItemToLinkWordThreshold |-> 30]

\* the zero value of linkAccumulatorType
ZeroAccumulator ==
    [emitParaCount |-> 0, linkArray |-> <<>>, flushedToIndex |-> 0,
     tableNestLevel |-> 0]

newLinkAccumulator == [ZeroAccumulator EXCEPT !.flushedToIndex = -1]

ZeroTableCtx ==
    [header |-> <<>>, body |-> <<>>, footer |-> <<>>, tmpRow |-> 0,
     isInFooter |-> FALSE]

\* tableTraverseContext.init
tableCtxInit == ZeroTableCtx

\* the zero value of the traverse context.  kind and cellBuf are not fields
\* of the struct: kind names the call that owns the context ("top", "cell",
\* "scratch"), cellBuf is the local buf of renderEachChild.
ZeroCtx ==
    [buf |-> <<>>, prefix |-> <<>>, tableCtx |-> ZeroTableCtx,
     options |-> ZeroOptions, endsWithSpace |-> FALSE, justClosedDiv |-> FALSE,
     blockquoteLevel |-> 0, lineLength |-> 0, isPre |-> FALSE,
     linkAccumulator |-> ZeroAccumulator, kind |-> "top", cellBuf |-> <<>>]

\* variant 2: NewTraverseContext(options)
NewTraverseContext(options) ==
    [ZeroCtx EXCEPT !.options = [options EXCEPT !.CitationStart = 1],
                    !.linkAccumulator = newLinkAccumulator]

\* variant 1: the context FromHTMLNode builds from its variadic options
\* (given = FALSE: no options passed)
FromHTMLNodeCtx(options, given) ==
    [ZeroCtx EXCEPT !.options =
        IF given THEN options ELSE [ZeroOptions EXCEPT !.CitationStart = 1]]

\* variant 2: the scratch context of the peek-ahead, testCtx := TextifyTraverseContext{}
testCtx == [ZeroCtx EXCEPT !.kind = "scratch"]

\* ------------------------------------------------------------------------
\* State
\* ------------------------------------------------------------------------
VARIABLES
    variant,          \* 1: src/html2gemini.go, 2: the listing in src/README.md
    doc,              \* the tree handed to the entry point
    call,             \* the caller's options: [options, given]
    ctxs,             \* stack of render contexts, the running one last
    tasks,            \* continuation of the walk, next step first
    linkAccumulator,  \* variant 1: the package-level accumulator
    results,          \* texts returned by the completed top-level renders
    regLog            \* history: every citation appended to a linkArray

vars == <<variant, doc, call, ctxs, tasks, linkAccumulator, results, regLog>>

\* A machine value m = [c, g, log] bundles what a handler reads and writes:
\* the running context, the package-level accumulator and the history.
Machine == [c |-> Last(ctxs), g |-> linkAccumulator, log |-> regLog]

\* a design in which every context shares one accumulator
sharedByAllContexts == TRUE

\* where the accumulator lives: the package-level variable of variant 1, or
\* the linkAccumulator field each context of variant 2 carries
packageLevelAccumulator == variant = 1

AccOf(c, g) == IF packageLevelAccumulator THEN g ELSE c.linkAccumulator

Acc(m) == AccOf(m.c, m.g)

SetAcc(m, a) ==
    IF packageLevelAccumulator THEN [m EXCEPT !.g = a]
    ELSE [m EXCEPT !.c.linkAccumulator = a]

\* ------------------------------------------------------------------------
\* Text emitter
\* ------------------------------------------------------------------------
punctNoSpaceBefore(r) == r \in {".", ",", ";", "!", "?", ")", "]", ">"}

punctNoSpaceAfter(r) == r \in {"(", "[", "<"}

maxLineLen == 74

\* a scan that finds no white space before the limit
scanBackFindsNone(runes, i) == -1

\* the three index scans of breakLongLines, on 0-based indices as in the code

scanBack(runes, i) ==
    IF \A j \in 0..i : ~IsSpace(runes[j + 1]) THEN -1
    ELSE MaxOf({j \in 0..i : IsSpace(runes[j + 1])})

scanForward(runes, i) ==
    IF \A j \in i..(Len(runes) - 1) : ~IsSpace(runes[j + 1]) THEN Len(runes)
    ELSE MinOf({j \in i..(Len(runes) - 1) : IsSpace(runes[j + 1])})

skipSpaces(runes, i) ==
    IF \A j \in i..(Len(runes) - 1) : IsSpace(runes[j + 1]) THEN Len(runes)
    ELSE MinOf({j \in i..(Len(runes) - 1) : ~IsSpace(runes[j + 1])})

RECURSIVE breakLoop(_, _, _)
breakLoop(runes, existing, ret) ==
    IF Len(runes) + existing > maxLineLen
    THEN LET i0 == maxLineLen - existing
             i1 == scanBack(runes, i0)
             i2 == IF i1 = -1 THEN scanForward(runes, i0) ELSE i1
             i3 == skipSpaces(runes, i2)
         IN breakLoop(Drop(runes, i3), 0,
                      Append(ret, SubSeq(runes, 1, i2) \o <<NL>>))
    ELSE IF Len(runes) > 0 THEN Append(ret, runes) ELSE ret

\* variant 1 only: the pieces emit writes for data
breakLongLines(c, data) ==
    IF c.blockquoteLevel = 0 THEN <<data>>
    ELSE IF c.lineLength >= maxLineLen
         THEN breakLoop(data, 0, <<<<NL>>>>)
         ELSE breakLoop(data, c.lineLength, <<>>)

\* the inner loop of emit: every character is written, a newline is followed
\* by the prefix and restarts the line length
writeChars(c, line) ==
    [c EXCEPT !.buf = @ \o Concat([i \in 1..Len(line) |->
                                      IF line[i] = NL THEN <<NL>> \o c.prefix
                                      ELSE <<line[i]>>]),
              !.lineLength =
                  IF \E i \in 1..Len(line) : line[i] = NL
                  THEN Len(line) - MaxOf({i \in 1..Len(line) : line[i] = NL})
                  ELSE @ + Len(line)]

emitLine(c, line) ==
    LET startsWithSpace == IsSpace(line[1]) \/ punctNoSpaceBefore(line[1])
        c1 == IF ~startsWithSpace /\ ~c.endsWithSpace
              THEN [c EXCEPT !.buf = Append(@, SP), !.lineLength = @ + 1]
              ELSE c
        c2 == [c1 EXCEPT !.endsWithSpace =
                  IsSpace(Last(line)) \/ punctNoSpaceAfter(Last(line))]
    IN writeChars(c2, line)

RECURSIVE emitLines(_, _)
emitLines(c, lines) ==
    IF lines = <<>> THEN c ELSE emitLines(emitLine(c, Head(lines)), Tail(lines))

\* ctx.emit on a context
emitCtx(c, data) ==
    IF data = <<>> THEN c
    ELSE emitLines(c, IF variant = 1 THEN breakLongLines(c, data) ELSE <<data>>)

emit(m, data) == [m EXCEPT !.c = emitCtx(m.c, data)]

\* ------------------------------------------------------------------------
\* Citation accumulator
\* ------------------------------------------------------------------------
normalizeHrefLink(link) == TrimPrefix(TrimSpace(link), <<"m", "a", "i", "l", "t", "o", ":">>)

formatGeminiCitation(idx, showMarker) ==
    IF showMarker THEN (<<"[">> \o Itoa(idx)) \o <<"]">> ELSE <<>>

\* variant 2 only: spaces of the url are escaped as %20
escapeSpaces(url) == ReplaceAll(url, <<SP>>, <<"%", "2", "0">>)

\* the url stored in the citation record
citationUrl(url) == IF variant = 2 THEN escapeSpaces(url) ELSE url

\* addGeminiCitation: the machine after the call and the returned marker s
addGeminiCitation(m, url, display) ==
    IF url[1] = "#" THEN [m |-> m, s |-> <<>>]
    ELSE LET a == Acc(m)
             citation == [index |-> Len(a.linkArray) + m.c.options.CitationStart,
                          url |-> citationUrl(url), display |-> display]
             m1 == SetAcc(m, [a EXCEPT !.linkArray = Append(@, citation)])
         IN [m |-> [m1 EXCEPT !.log = Append(@, [cit |-> citation, kind |-> m.c.kind])],
             s |-> formatGeminiCitation(citation.index, m.c.options.CitationMarkers)]

ResetCitationCounters(m) ==
    SetAcc(m, [Acc(m) EXCEPT !.flushedToIndex = Len(Acc(m).linkArray) - 1,
                             !.emitParaCount = 0])

\* one link line of the flush
linkLine(link, numbered) ==
    Concat(<< <<"=", ">", SP>>, link.url, <<SP>>,
              formatGeminiCitation(link.index, numbered), <<SP>>,
              link.display, <<NL>> >>)

\* the link lines of the citations at 0-based positions > flushedToIndex
linkLines(linkArray, flushedToIndex, numbered) ==
    Concat([j \in 1..Len(linkArray) |->
               IF j - 1 > flushedToIndex THEN linkLine(linkArray[j], numbered)
               ELSE <<>>])

forceFlushGeminiCitations(m) ==
    IF Acc(m).tableNestLevel > 0 THEN m
    ELSE LET a == Acc(m)
             out == (<<NL, NL>>
                     \o linkLines(a.linkArray, a.flushedToIndex,
                                  m.c.options.NumberedLinks))
                    \o <<NL>>
         IN ResetCitationCounters([m EXCEPT !.c.buf = @ \o out])

emitGeminiCitations(m) ==
    IF Len(Acc(m).linkArray) > Acc(m).flushedToIndex
    THEN forceFlushGeminiCitations(m) ELSE m

FlushCitations(m) == emitGeminiCitations(m)

\* a check that counts the boundary before it compares
CheckFlushCitationsCountingFirst(m) ==
    IF /\ Acc(m).emitParaCount + 1 > m.c.options.LinkEmitFrequency
       /\ Len(Acc(m).linkArray) > Acc(m).flushedToIndex + 1
    THEN FlushCitations(m)
    ELSE SetAcc(m, [Acc(m) EXCEPT !.emitParaCount = @ + 1])

CheckFlushCitations(m) ==
    IF /\ Acc(m).emitParaCount > m.c.options.LinkEmitFrequency
       /\ Len(Acc(m).linkArray) > Acc(m).flushedToIndex + 1
    THEN FlushCitations(m)
    ELSE SetAcc(m, [Acc(m) EXCEPT !.emitParaCount = @ + 1])

\* ------------------------------------------------------------------------
\* Tree walker: shared pieces
\* ------------------------------------------------------------------------
Task(op, path) == [op |-> op, path |-> path]

cur == Head(tasks)
rest == Tail(tasks)
node == NodeAt(doc, cur.path)

\* traverseChildren: one traverse per child, in sibling order
kidTasks(path) ==
    [i \in 1..Len(NodeAt(doc, path).kids) |-> Task("traverse", Append(path, i))]

\* the element at the head of the continuation is about to be handled
AtElement(atoms) ==
    /\ tasks # <<>>
    /\ cur.op = "traverse"
    /\ node.type = "elem"
    /\ node.atom \in atoms

At(op) == tasks # <<>> /\ cur.op = op

\* first statement of handleElement
enter(m) == [m EXCEPT !.c.justClosedDiv = FALSE]

\* the running context is replaced by m.c
Update(m, newTasks) ==
    /\ ctxs' = [ctxs EXCEPT ![Len(ctxs)] = m.c]
    /\ linkAccumulator' = m.g
    /\ regLog' = m.log
    /\ tasks' = newTasks
    /\ UNCHANGED <<variant, doc, call, results>>

\* the text FromHTMLNode returns for the buffer
finalText(buf) ==
    LET text == TrimSpace(newlineReReplace(ReplaceAll(buf, <<NL, SP>>, <<NL>>)))
    IN IF variant = 1 THEN text
       ELSE endQuoteReplace(endQuoteReplace(startQuoteReplace(text)))

PanicValue == <<"panic">>

Panicked == results # <<>> /\ Last(results) = PanicValue

\* a handleElement that skips the head only
onlyHeadIgnored == {"head"}

\* element kinds with a case of their own in handleElement
IgnoredAtoms ==
    IF variant = 1 THEN {"style", "script", "head"}
    ELSE {"style", "script", "head", "footer", "nav"}

TableAtoms == {"table", "tfoot", "th", "tr", "td"}

HandledAtoms ==
    {"br", "h1", "h2", "h3", "blockquote", "div", "li", "img", "a", "p", "ul",
     "pre"} \cup TableAtoms \cup IgnoredAtoms

\* ------------------------------------------------------------------------
\* Entry point
\* ------------------------------------------------------------------------
MaxRenders == 2

\* the context the top-level call renders into
callCtx ==
    IF variant = 1 THEN FromHTMLNodeCtx(call.options, call.given)
    ELSE IF call.given THEN NewTraverseContext(call.options) ELSE ZeroCtx

\* FromHTMLNode is called on doc (FromReader and FromString end in this call)
FromHTMLNode ==
    /\ tasks = <<>>
    /\ Len(results) < MaxRenders
    /\ ~Panicked
    /\ ctxs' = <<callCtx>>
    /\ tasks' = <<Task("traverse", <<>>), Task("return", <<>>)>>
    /\ regLog' = <<>>
    /\ UNCHANGED <<variant, doc, call, linkAccumulator, results>>

\* the tail of the top-level FromHTMLNode: final flush, normalisation, return
Return ==
    /\ At("return")
    /\ LET m == forceFlushGeminiCitations(Machine)
       IN /\ ctxs' = <<m.c>>
          /\ linkAccumulator' = m.g
          /\ regLog' = m.log
          /\ results' = Append(results, finalText(m.c.buf))
    /\ tasks' = rest
    /\ UNCHANGED <<variant, doc, call>>

\* ------------------------------------------------------------------------
\* traverse
\* ------------------------------------------------------------------------
\* a traverse that collapses the runs but keeps those at the edges
textDataUntrimmed(c, data) ==
    IF c.isPre THEN data ELSE spacingReReplace(data)

\* the text a text node emits
textData(c, data) ==
    IF c.isPre THEN data ELSE TrimSpace(spacingReReplace(data))

TraverseText ==
    /\ At("traverse")
    /\ node.type = "text"
    /\ Update(emit(Machine, textData(Last(ctxs), node.data)), rest)

\* document nodes and element kinds without a case of their own
TraverseChildren ==
    /\ At("traverse")
    /\ \/ node.type = "doc"
       \/ node.type = "elem" /\ node.atom \notin HandledAtoms
    /\ Update(IF node.type = "elem" THEN enter(Machine) ELSE Machine,
              kidTasks(cur.path) \o rest)

HandleBr ==
    /\ AtElement({"br"})
    /\ Update(emit(enter(Machine), <<NL>>), rest)

headingPrefix(atom) ==
    CASE atom = "h1" -> <<"#", SP>>
      [] atom = "h2" -> <<"#", "#", SP>>
      [] atom = "h3" -> <<"#", "#", "#", SP>>

\* the newlines a heading opens and closes with
headingBreak == IF variant = 1 THEN <<NL>> ELSE <<NL, NL>>

HandleHeading ==
    /\ AtElement({"h1", "h2", "h3"})
    /\ Update(emit(FlushCitations(enter(Machine)),
                   headingBreak \o headingPrefix(node.atom)),
              (kidTasks(cur.path) \o <<Task("exitHeading", cur.path)>>) \o rest)

ExitHeading ==
    /\ At("exitHeading")
    /\ Update(emit(Machine, headingBreak), rest)

\* a prefix that ends with a space at every level
closedPrefixSpaced(level) == Repeat(<<">">>, level) \o <<SP>>

\* the line prefix of a blockquote nesting level after the level went down
closedPrefix(level) ==
    Repeat(<<">">>, level) \o (IF level > 0 THEN <<SP>> ELSE <<>>)

HandleBlockquote ==
    /\ AtElement({"blockquote"})
    /\ LET m1 == FlushCitations(enter(Machine))
           level == m1.c.blockquoteLevel + 1
           m2 == [m1 EXCEPT !.c.blockquoteLevel = level,
                            !.c.prefix = Repeat(<<">">>, level) \o <<SP>>]
           m3 == IF variant = 2 THEN m2
                 ELSE IF level = 1 THEN emit(emit(m2, <<NL>>), <<NL>>)
                 ELSE emit(m2, <<NL>>)
       IN Update(m3, (kidTasks(cur.path) \o <<Task("exitBlockquote", cur.path)>>)
                     \o rest)

ExitBlockquote ==
    /\ At("exitBlockquote")
    /\ LET m == Machine
           level == m.c.blockquoteLevel - 1
           m1 == [m EXCEPT !.c.blockquoteLevel = level,
                           !.c.prefix = closedPrefix(level)]
       IN Update(IF variant = 1 THEN emit(m1, <<NL, NL>>) ELSE m1, rest)

HandleDiv ==
    /\ AtElement({"div"})
    /\ LET m == enter(Machine)
       IN Update(IF m.c.lineLength > 0 THEN emit(m, <<NL>>) ELSE m,
                 (kidTasks(cur.path) \o <<Task("exitDiv", cur.path)>>) \o rest)

ExitDiv ==
    /\ At("exitDiv")
    /\ LET m == Machine
           m1 == IF ~m.c.justClosedDiv THEN emit(m, <<NL>>) ELSE m
       IN Update([m1 EXCEPT !.c.justClosedDiv = TRUE], rest)

HandleIgnored ==
    /\ AtElement(IgnoredAtoms)
    /\ Update(enter(Machine), rest)

\* the fences of a preformatted block
preOpen == IF variant = 1 THEN <<BT, BT, BT, NL>>
           ELSE <<NL, NL, BT, BT, BT, NL>>

preClose == IF variant = 1 THEN <<NL, BT, BT, BT>>
            ELSE <<NL, BT, BT, BT, NL, NL>>

HandlePre ==
    /\ AtElement({"pre"})
    /\ Update([emit(enter(Machine), preOpen) EXCEPT !.c.isPre = TRUE],
              (kidTasks(cur.path) \o <<Task("exitPre", cur.path)>>) \o rest)

ExitPre ==
    /\ At("exitPre")
    /\ Update(emit([Machine EXCEPT !.c.isPre = FALSE], preClose), rest)

\* ------------------------------------------------------------------------
\* Lists, paragraphs and the peek-ahead
\* ------------------------------------------------------------------------
\* paragraphHandler up to the recursion into the children
paragraphOpen(m) == emit(CheckFlushCitations(m), <<NL, NL>>)

\* paragraphHandler(node): ul always, p in variant 1
paragraphHandler ==
    /\ AtElement(IF variant = 1 THEN {"p", "ul"} ELSE {"ul"})
    /\ Update(paragraphOpen(enter(Machine)),
              (kidTasks(cur.path) \o <<Task("exitParagraph", cur.path)>>) \o rest)

ExitParagraph ==
    /\ At("exitParagraph")
    /\ Update(emit(Machine, <<NL, NL>>), rest)

\* variant 1: case atom.Li
HandleLi ==
    /\ variant = 1
    /\ AtElement({"li"})
    /\ Update(emit(enter(Machine), <<"*", SP>>),
              (kidTasks(cur.path) \o <<Task("exitLi", cur.path)>>) \o rest)

ExitLi ==
    /\ At("exitLi")
    /\ Update(emit(Machine, <<NL>>), rest)

\* variant 2: case atom.Li and case atom.P start by rendering the children
\* into a scratch context
PeekAhead ==
    /\ variant = 2
    /\ AtElement({"li", "p"})
    /\ ctxs' = Append([ctxs EXCEPT ![Len(ctxs)] = enter(Machine).c], testCtx)
    /\ tasks' = (kidTasks(cur.path) \o <<Task("peekReturn", cur.path)>>) \o rest
    /\ UNCHANGED <<variant, doc, call, linkAccumulator, results, regLog>>

\* the block collapses to one link line
singleLink(scratch, g, options) ==
    /\ SplitLen(scratch.buf) < options.ListItemToLinkWordThreshold
    /\ Len(AccOf(scratch, g).linkArray) = 1

\* variant 2: the scratch traversal returned; the live context decides
PeekReturn ==
    /\ At("peekReturn")
    /\ LET scratch == Last(ctxs)
           m == [c |-> ctxs[Len(ctxs) - 1], g |-> linkAccumulator, log |-> regLog]
           links == AccOf(scratch, linkAccumulator).linkArray
           bullet == IF node.atom = "li" THEN <<"*", SP>> ELSE <<>>
           out == CASE singleLink(scratch, linkAccumulator, m.c.options) ->
                         [m |-> emit(m, Concat(<< <<"=", ">", SP>>, links[1].url,
                                                  <<SP>>, scratch.buf, <<NL>> >>)),
                          t |-> <<>>]
                    [] ~singleLink(scratch, linkAccumulator, m.c.options)
                       /\ Len(links) = 0 ->
                         [m |-> emit(m, (bullet \o scratch.buf) \o <<NL>>),
                          t |-> <<>>]
                    [] OTHER ->
                         IF node.atom = "li"
                         THEN [m |-> emit(m, <<"*", SP>>),
                               t |-> kidTasks(cur.path)
                                     \o <<Task("exitLi", cur.path)>>]
                         ELSE [m |-> paragraphOpen(m),
                               t |-> kidTasks(cur.path)
                                     \o <<Task("exitParagraph", cur.path)>>]
       IN /\ ctxs' = Append(SubSeq(ctxs, 1, Len(ctxs) - 2), out.m.c)
          /\ linkAccumulator' = out.m.g
          /\ regLog' = out.m.log
          /\ tasks' = out.t \o rest
    /\ UNCHANGED <<variant, doc, call, results>>

\* ------------------------------------------------------------------------
\* Images and anchors
\* ------------------------------------------------------------------------
LastIndex(s, ch) ==
    IF \E i \in 1..Len(s) : s[i] = ch
    THEN MaxOf({i \in 1..Len(s) : s[i] = ch}) ELSE 0

stripTrailingSlashes(s) ==
    IF \A i \in 1..Len(s) : s[i] = "/" THEN <<>>
    ELSE SubSeq(s, 1, MaxOf({i \in 1..Len(s) : s[i] # "/"}))

\* filepath.Base
Base(path) ==
    IF path = <<>> THEN <<".">>
    ELSE LET t == stripTrailingSlashes(path)
             u == Drop(t, LastIndex(t, "/"))
         IN IF u = <<>> THEN <<"/">> ELSE u

\* filepath.Ext
Ext(path) ==
    IF LastIndex(path, ".") > LastIndex(path, "/")
    THEN SubSeq(path, LastIndex(path, "."), Len(path)) ELSE <<>>

\* strings.TrimSuffix
TrimSuffix(s, suf) ==
    IF Len(suf) <= Len(s) /\ SubSeq(s, Len(s) - Len(suf) + 1, Len(s)) = suf
    THEN SubSeq(s, 1, Len(s) - Len(suf)) ELSE s

\* the bracketed text of an image
altText(n, options) ==
    LET alt == IF n.alt # <<>> THEN n.alt
               ELSE IF n.src # <<>> THEN TrimSuffix(Base(n.src), Ext(Base(n.src)))
               ELSE <<>>
        t0 == Concat(<< <<"[">>, options.ImageMarkerPrefix, <<SP>>, alt, <<"]">> >>)
        t1 == ReplaceAll(t0, <<"_">>, <<SP>>)
        t2 == ReplaceAll(t1, <<"-">>, <<SP>>)
    IN ReplaceAll(t2, <<SP, SP>>, <<SP>>)

\* registration shared by img and a: the marker to emit and the machine after
register(m, attr, display) ==
    LET attrVal == normalizeHrefLink(attr)
    IN IF attr # <<>> /\ ~m.c.options.OmitLinks /\ attrVal # <<>> /\ display # attrVal
       THEN addGeminiCitation(m, attrVal, display)
       ELSE [m |-> m, s |-> <<>>]

HandleImg ==
    /\ AtElement({"img"})
    /\ LET m == enter(Machine)
           text == altText(node, m.c.options)
           r == register(emit(m, text), node.src, text)
       IN Update(IF m.c.options.EmitImagesAsLinks THEN emit(r.m, r.s)
                 ELSE emit(m, text),
                 rest)

HandleA ==
    /\ AtElement({"a"})
    /\ Update(enter(Machine), (kidTasks(cur.path) \o <<Task("exitA", cur.path)>>) \o rest)

\* the anchor's only child is an image
onlyImage(n) ==
    Len(n.kids) = 1 /\ n.kids[1].type = "elem" /\ n.kids[1].atom = "img"

\* the display text an anchor registers
linkText(n, options) ==
    IF onlyImage(n) THEN options.EmptyLinkPrefix
    ELSE IF Len(n.kids) = 1 /\ n.kids[1].type = "text" THEN n.kids[1].data
    ELSE <<>>

\* case atom.A after the children have been traversed
ExitA ==
    /\ At("exitA")
    /\ LET m == Machine
           m1 == IF onlyImage(node)
                 THEN emit(m, <<SP>> \o m.c.options.EmptyLinkPrefix) ELSE m
           r == register(m1, node.href, linkText(node, m.c.options))
       IN Update(emit(r.m, r.s), rest)

\* ------------------------------------------------------------------------
\* Tables
\* ------------------------------------------------------------------------
prettyTables == Last(ctxs).options.PrettyTables

tableMarker ==
    <<NL, NL, BOXPLUS, SP, "t", "a", "b", "l", "e", SP, BOXPLUS, NL, NL>>

\* PrettyTables off, table: a marker and a paragraph-like block
PlainTable ==
    /\ AtElement({"table"})
    /\ ~prettyTables
    /\ Update(paragraphOpen(emit(enter(Machine), tableMarker)),
              (kidTasks(cur.path) \o <<Task("exitParagraph", cur.path)>>) \o rest)

\* PrettyTables off, tr starts a line; tfoot, th, td only recurse
PlainTablePart ==
    /\ AtElement({"tfoot", "th", "tr", "td"})
    /\ ~prettyTables
    /\ Update(IF node.atom = "tr" THEN emit(enter(Machine), <<NL>>)
              ELSE enter(Machine),
              kidTasks(cur.path) \o rest)

tableOpen(level) == IF level = 0 THEN <<NL, NL, BT, BT, BT, NL>> ELSE <<NL, NL>>

\* a closing that writes the fence at every nesting level
tableCloseFenced(level) == <<BT, BT, BT, NL, NL>>

tableClose(level) == IF level = 0 THEN <<BT, BT, BT, NL, NL>> ELSE <<NL, NL>>

HandleTable ==
    /\ AtElement({"table"})
    /\ prettyTables
    /\ LET m == enter(Machine)
           m1 == emit(m, tableOpen(Acc(m).tableNestLevel))
           m2 == SetAcc(m1, [Acc(m1) EXCEPT !.tableNestLevel = @ + 1])
       IN Update([m2 EXCEPT !.c.tableCtx = tableCtxInit],
                 (kidTasks(cur.path) \o <<Task("exitTable", cur.path)>>) \o rest)

\* Layout of the grid.  The layout is done by the tablewriter package, which
\* is not part of the repository: one line per row, cells between bars,
\* between two border lines.
gridRow(cells) ==
    (<<"|">> \o Concat([i \in 1..Len(cells) |-> (<<SP>> \o cells[i]) \o <<SP, "|">>]))
    \o <<NL>>

gridRows(rows) == Concat([i \in 1..Len(rows) |-> gridRow(rows[i])])

tableRender(t) ==
    Concat(<< <<"+", "-", "+", NL>>,
              IF t.header = <<>> THEN <<>> ELSE gridRows(<<t.header>>),
              gridRows(t.body),
              IF t.footer = <<>> THEN <<>> ELSE gridRows(<<t.footer>>),
              <<"+", "-", "+", NL>> >>)

ExitTable ==
    /\ At("exitTable")
    /\ LET m == emit(Machine, tableRender(Machine.c.tableCtx))
           m1 == SetAcc(m, [Acc(m) EXCEPT !.tableNestLevel = @ - 1])
       IN Update(emit(m1, tableClose(Acc(m1).tableNestLevel)), rest)

HandleTfoot ==
    /\ AtElement({"tfoot"})
    /\ prettyTables
    /\ Update([enter(Machine) EXCEPT !.c.tableCtx.isInFooter = TRUE],
              (kidTasks(cur.path) \o <<Task("exitTfoot", cur.path)>>) \o rest)

ExitTfoot ==
    /\ At("exitTfoot")
    /\ Update([Machine EXCEPT !.c.tableCtx.isInFooter = FALSE], rest)

HandleTr ==
    /\ AtElement({"tr"})
    /\ prettyTables
    /\ Update([enter(Machine) EXCEPT !.c.tableCtx.body = Append(@, <<>>)],
              (kidTasks(cur.path) \o <<Task("exitTr", cur.path)>>) \o rest)

ExitTr ==
    /\ At("exitTr")
    /\ Update([Machine EXCEPT !.c.tableCtx.tmpRow = @ + 1], rest)

\* th, td: renderEachChild starts with an empty local buffer and renders each
\* child by a call of FromHTMLNode
HandleCell ==
    /\ AtElement({"th", "td"})
    /\ prettyTables
    /\ Update([enter(Machine) EXCEPT !.c.cellBuf = <<>>],
              ([i \in 1..Len(node.kids) |-> Task("cellChild", Append(cur.path, i))]
               \o <<Task("cellDone", cur.path)>>) \o rest)

\* the context FromHTMLNode renders a cell child into: built from the options
\* (variant 1) or a copy of the calling context (variant 2)
cellCtx(c) ==
    [(IF variant = 1 THEN FromHTMLNodeCtx(c.options, TRUE) ELSE c)
        EXCEPT !.kind = IF c.kind = "scratch" THEN "scratch" ELSE "cell",
               !.cellBuf = <<>>]

\* renderEachChild calls FromHTMLNode for one child
CellChild ==
    /\ At("cellChild")
    /\ ctxs' = Append(ctxs, cellCtx(Last(ctxs)))
    /\ tasks' = <<Task("traverse", cur.path), Task("cellReturn", cur.path)>> \o rest
    /\ UNCHANGED <<variant, doc, call, linkAccumulator, results, regLog>>

\* the cell child is not the last child of its cell
hasNextSibling(path) ==
    Last(path) < Len(NodeAt(doc, SubSeq(path, 1, Len(path) - 1)).kids)

\* the tail of FromHTMLNode for a cell child, and the append in renderEachChild
CellReturn ==
    /\ At("cellReturn")
    /\ LET m == forceFlushGeminiCitations(Machine)
           s == finalText(m.c.buf)
           sep == IF hasNextSibling(cur.path) THEN <<NL>> ELSE <<>>
           caller == ctxs[Len(ctxs) - 1]
       IN /\ ctxs' = Append(SubSeq(ctxs, 1, Len(ctxs) - 2),
                            [caller EXCEPT !.cellBuf = (@ \o s) \o sep])
          /\ linkAccumulator' = m.g
          /\ regLog' = m.log
    /\ tasks' = rest
    /\ UNCHANGED <<variant, doc, call, results>>

\* the index expression body[tmpRow] is in range
rowOpen(t) == t.tmpRow < Len(t.body)

\* th, td after renderEachChild: the text goes into the grid
CellDone ==
    /\ At("cellDone")
    /\ LET c == Last(ctxs)
           t == c.tableCtx
       IN \/ /\ node.atom = "td" /\ ~t.isInFooter /\ ~rowOpen(t)
             /\ results' = Append(results, PanicValue)
             /\ tasks' = <<>>
             /\ UNCHANGED <<variant, doc, call, ctxs, linkAccumulator, regLog>>
          \/ /\ ~(node.atom = "td" /\ ~t.isInFooter /\ ~rowOpen(t))
             /\ Update([Machine EXCEPT !.c.tableCtx =
                          IF node.atom = "th"
                          THEN [t EXCEPT !.header = Append(@, c.cellBuf)]
                          ELSE IF t.isInFooter
                          THEN [t EXCEPT !.footer = Append(@, c.cellBuf)]
                          ELSE [t EXCEPT !.body[t.tmpRow + 1] = Append(@, c.cellBuf)]],
                       rest)

\* ------------------------------------------------------------------------
\* Inputs
\* ------------------------------------------------------------------------
\* longest run of consecutive blocks of a page taken as one document
MaxBlocks == 3

\* an article: heading, paragraphs with links, a list, a quote, a table,
\* preformatted text
Page1 ==
    << El("h1", <<Tx(<<"T">>)>>),
       El("p", <<Anchor(<<"x">>, <<Tx(<<"s", "h", "o", "r", "t">>)>>)>>),
       El("p", <<Tx(<<"s", "e", "e">>), Anchor(<<"u">>, <<Tx(<<"l">>)>>), Tx(<<".">>)>>),
       El("ul", <<El("li", <<Tx(<<"i", "t", "e", "m">>)>>),
                  El("li", <<Anchor(<<"u">>, <<Tx(<<"l">>)>>), Tx(<<"o", "r">>),
                             Anchor(<<"w">>, <<Tx(<<"k">>)>>)>>)>>),
       El("blockquote", <<Tx(<<"q">>), Anchor(<<"w">>, <<Tx(<<"k">>)>>)>>),
       El("table", <<El("tr", <<El("td", <<Anchor(<<"u">>, <<Tx(<<"c">>)>>)>>),
                                El("td", <<Anchor(<<"w">>, <<Tx(<<"d">>)>>)>>)>>)>>),
       El("p", <<Tx(<<"y">>), El("br", <<>>), Tx(<<"z">>)>>),
       El("pre", <<Tx(<<"a", NL, SP, SP, "b">>)>>),
       El("h2", <<Tx(<<"T">>)>>) >>

\* loose inline content and the odd cases
Page2 ==
    << Tx(<<SP, "a", SP, SP, "b", NL>>),
       Anchor(<<SP, "m", "a", "i", "l", "t", "o", ":", "a", SP, "b", SP>>, <<Tx(<<"m">>)>>),
       Anchor(<<"u">>, <<El("span", <<Tx(<<"L">>)>>)>>),
       Anchor(<<"w">>, <<Tx(<<SP, "p", SP>>)>>),
       Anchor(<<"u">>, <<Image(<<"s", "/", "i", "_", "1", ".", "p", "n", "g">>, <<>>)>>),
       El("script", <<Anchor(<<"u">>, <<Tx(<<"l">>)>>)>>),
       El("div", <<Tx(<<"d">>)>>),
       El("div", <<Anchor(<<"#", "f">>, <<Tx(<<"l">>)>>), Anchor(<<"k">>, <<Tx(<<"k">>)>>)>>),
       El("li", <<Anchor(<<"w">>, <<Tx(<<"k">>)>>)>>),
       El("table", <<El("tr", <<El("th", <<Tx(<<"c">>)>>)>>),
                     El("tfoot", <<El("tr", <<El("td", <<Tx(<<"d">>)>>)>>)>>)>>),
       El("td", <<Tx(<<"c">>)>>) >>

\* quotes, lists and plain paragraphs
Page3 ==
    << El("blockquote", <<Tx(<<"q">>), El("blockquote", <<Tx(<<"r">>)>>), Tx(<<"s">>)>>),
       Tx(<<"t">>),
       El("blockquote", <<El("p", <<Anchor(<<"w">>, <<Tx(<<"k">>)>>), Tx(<<"a">>)>>),
                          El("p", <<Tx(<<"b">>)>>), Tx(<<"c">>)>>),
       El("ul", <<El("li", <<Tx(<<"i">>)>>), El("li", <<Tx(<<SP, "j", SP, TAB, "e", NL>>)>>)>>),
       Tx(<<"_">>),
       El("p", <<Tx(<<"m">>)>>),
       El("p", <<Tx(<<"n">>)>>),
       El("h3", <<Tx(<<"h">>)>>),
       El("blockquote", <<El("br", <<>>)>>),
       El("h2", <<Tx(<<"g">>)>>) >>

\* inline text: fragments, wrappers and punctuation
Page4 ==
    << Tx(<<"u", TAB, SP, "y", SP>>),
       El("span", <<Tx(<<"v">>)>>),
       Tx(<<SP, ".">>),
       Tx(<<"(", TAB>>),
       El("span", <<Tx(<<NL, "o">>)>>),
       Tx(<<"d", SP, NL, SP, "e", "!">>) >>

\* a word of n letters, its letters cycling from the k-th on
Word(k, n) ==
    [i \in 1..n |-> <<"a", "b", "c", "d", "e", "f", "g">>[((k + i) % 7) + 1]]

\* quotes longer than a line: one text with breaks, fragments that meet
\* near the limit, a word longer than a line, one word per element; a
\* long paragraph outside a quote
Page5 ==
    << El("blockquote",
          <<Tx(Word(0, 30) \o <<SP>> \o Word(1, 30) \o <<SP>> \o Word(2, 30)
                  \o <<SP>> \o Word(3, 5))>>),
       El("blockquote",
          <<Tx(Word(0, 70)), El("span", <<Tx(Word(1, 8))>>),
            Tx(Word(2, 3) \o <<SP>> \o Word(3, 3))>>),
       El("blockquote",
          <<Tx(Word(0, 10)),
            El("span", <<Tx(Word(1, 64) \o <<SP, "x">>)>>)>>),
       El("blockquote", <<Tx(Word(0, 80) \o <<SP, "y">>)>>),
       El("blockquote",
          <<El("span", <<Tx(Word(0, 20))>>), El("span", <<Tx(Word(1, 20))>>),
            El("span", <<Tx(Word(2, 20))>>), El("span", <<Tx(Word(3, 20))>>),
            El("span", <<Tx(Word(4, 20))>>)>>),
       El("p", <<Tx(Word(0, 40) \o <<SP>> \o Word(1, 40))>>) >>

\* a table with links, a heading below it
Page6 ==
    << El("table", <<El("tr", <<El("td", <<Anchor(<<"u">>, <<Tx(<<"c">>)>>)>>),
                                El("td", <<Tx(<<"d">>)>>)>>)>>),
       El("h3", <<Tx(<<"T">>)>>) >>

\* tables whose cells hold blocks: a link, a heading, lists and a quote in
\* one cell; a table in a cell, text before it; a paragraph below; text and
\* then a paragraph with a link whose text has a line break
Page7 ==
    << El("table",
          <<El("tr", <<El("td", <<El("div", <<Anchor(<<"u">>, <<Tx(<<"c">>)>>),
                                              El("h3", <<Tx(<<"T">>)>>),
                                              El("ul", <<El("li", <<Tx(<<"i">>)>>)>>),
                                              El("ul", <<El("li", <<Tx(<<"j">>)>>)>>),
                                              El("blockquote", <<Tx(<<"q">>)>>)>>)>>)>>)>>),
       El("table",
          <<El("tr", <<El("th", <<Tx(<<"a">>)>>),
                       El("td", <<El("table",
                                     <<El("tr", <<El("td", <<Anchor(<<"w">>, <<Tx(<<"k">>)>>)>>)>>)>>)>>)>>)>>),
       El("p", <<Tx(<<"n">>)>>),
       El("span", <<Tx(<<"t">>),
                    El("p", <<Anchor(<<"u">>, <<Tx(<<"a", NL, "b">>)>>)>>)>>) >>

Pages == {Page1, Page2, Page3, Page4, Page5, Page6, Page7}

Min(a, b) == IF a < b THEN a ELSE b

\* the runs of 1..MaxBlocks consecutive blocks of a page
Windows(page) ==
    {SubSeq(page, i, j) : i \in 1..Len(page), j \in 1..Len(page)}
        \cap {SubSeq(page, i, Min(i + n - 1, Len(page))) :
                 i \in 1..Len(page), n \in 1..MaxBlocks}

Docs == {Document(w) : w \in UNION {Windows(page) : page \in Pages}}

\* what the caller passes: options (given) or nothing
Calls ==
    { [options |-> NewOptions, given |-> TRUE],
      [options |-> [NewOptions EXCEPT !.PrettyTables = TRUE], given |-> TRUE],
      [options |-> [NewOptions EXCEPT !.OmitLinks = TRUE], given |-> TRUE],
      [options |-> [NewOptions EXCEPT !.CitationStart = 3,
                                      !.LinkEmitFrequency = 0,
                                      !.ListItemToLinkWordThreshold = 2],
       given |-> TRUE],
      [options |-> ZeroOptions, given |-> FALSE] }

\* ------------------------------------------------------------------------
\* Specifications
\* ------------------------------------------------------------------------
InitFor(variants) ==
    /\ variant \in variants
    /\ doc \in Docs
    /\ call \in Calls
    /\ ctxs = <<>>
    /\ tasks = <<>>
    /\ linkAccumulator = newLinkAccumulator
    /\ results = <<>>
    /\ regLog = <<>>

Init == InitFor({1, 2})
InitGo == InitFor({1})
InitReadme == InitFor({2})

\* the steps both variants have
Common ==
    \/ FromHTMLNode
    \/ Return
    \/ TraverseText
    \/ TraverseChildren
    \/ HandleBr
    \/ HandleHeading
    \/ ExitHeading
    \/ HandleBlockquote
    \/ ExitBlockquote
    \/ HandleDiv
    \/ ExitDiv
    \/ HandleIgnored
    \/ HandlePre
    \/ ExitPre
    \/ paragraphHandler
    \/ ExitParagraph
    \/ ExitLi
    \/ HandleImg
    \/ HandleA
    \/ ExitA
    \/ PlainTable
    \/ PlainTablePart
    \/ HandleTable
    \/ ExitTable
    \/ HandleTfoot
    \/ ExitTfoot
    \/ HandleTr
    \/ ExitTr
    \/ HandleCell
    \/ CellChild
    \/ CellReturn
    \/ CellDone

NextGo == Common \/ HandleLi
NextReadme == Common \/ PeekAhead \/ PeekReturn
Next == Common \/ HandleLi \/ PeekAhead \/ PeekReturn

Spec == Init /\ [][Next]_vars
SpecGo == InitGo /\ [][NextGo]_vars
SpecReadme == InitReadme /\ [][NextReadme]_vars

\* ------------------------------------------------------------------------
\* Properties
\* ------------------------------------------------------------------------
\* a top-level render has returned its text
Done == tasks = <<>> /\ results # <<>> /\ ~Panicked

\* the citations registered for the output of the running render, in
\* registration order: all but those of the peek-ahead scratch contexts
Registered == SelectSeq(regLog, LAMBDA e : e.kind # "scratch")

\* the link line a flush writes for a citation, as a line of the final text
LineOf(cit) == TrimRight(linkLine(cit, ctxs[1].options.NumberedLinks))

IsLinkLine(line) == HasPrefix(line, <<"=", ">", SP>>)

\* how often a line occurs in a text
Occurrences(text, line) ==
    Cardinality({k \in 1..Len(Lines(text)) : TrimRight(Lines(text)[k]) = line})

\* how many registered citations are written as this line
Written(line) ==
    Cardinality({j \in 1..Len(Registered) : LineOf(Registered[j].cit) = line})

\* C1 (flush completeness): when a top-level render called with options has
\* returned, every citation registered during it, those of table cells in
\* pretty mode included, stands in the returned text as a link line exactly
\* once: the text holds each link line as often as citations were registered
\* for it.
FlushCompleteness ==
    (Done /\ call.given) => \A i \in 1..Len(Registered) :
                Occurrences(Last(results), LineOf(Registered[i].cit))
                    = Written(LineOf(Registered[i].cit))

\* C2 (independence of renders): two successive top-level renders of the
\* same tree with the same options return the same text.
RendersIndependent ==
    (Len(results) = 2 /\ ~Panicked) => results[1] = results[2]

\* C3 (consecutive indices): within one top-level render every registered
\* citation has the index of the one registered before it plus one, the
\* citations of table-cell sub-renders included, so no index is used twice.
IndicesConsecutive ==
    \A i \in 1..(Len(Registered) - 1) :
        Registered[i + 1].cit.index = Registered[i].cit.index + 1

\* the citation-start the caller configured, 1 when none was configured
StartOption ==
    IF call.given /\ call.options.CitationStart # 0
    THEN call.options.CitationStart ELSE 1

\* C4 (citation start): the first citation registered in a render has the
\* index the citation-start option gives (1 when it is not configured),
\* whichever constructor built the context.
FirstIndexIsCitationStart ==
    Registered # <<>> => Registered[1].cit.index = StartOption

IsDigit(ch) == ch \in {Digit(d) : d \in 0..9}

\* the text holds a citation marker [n]
HasMarker(text) ==
    \E i \in 1..Len(text), j \in 1..Len(text) :
        /\ i + 1 < j
        /\ text[i] = "[" /\ text[j] = "]"
        /\ \A k \in (i + 1)..(j - 1) : IsDigit(text[k])

HasLinkLine(text) ==
    \E k \in 1..Len(Lines(text)) : IsLinkLine(Lines(text)[k])

\* C5 (omit links): with OmitLinks set no citation is registered, and the
\* returned text holds no citation marker and no link line, also for links
\* in paragraphs and list items.
OmitLinksOmitsAll ==
    (call.given /\ call.options.OmitLinks) =>
        /\ Registered = <<>>
        /\ Done => (~HasMarker(Last(results)) /\ ~HasLinkLine(Last(results)))

\* what C6 names of a context: output buffer, citation sequence, flush
\* cursor, paragraph counter, table nesting depth and table grids
LiveView(c, g) ==
    [buf |-> c.buf, accumulator |-> AccOf(c, g), tableCtx |-> c.tableCtx]

\* context i waits for the scratch render above it after the step
AwaitsScratch(i) ==
    /\ i <= Len(ctxs)
    /\ i < Len(ctxs')
    /\ ctxs'[i + 1].kind = "scratch"
    /\ ctxs[i].kind # "scratch"

\* C6 (peek-ahead isolation): from the step that starts the scratch render
\* of a list item or paragraph until the live context emits again, no step
\* changes the live context's buffer, citation sequence, flush cursor,
\* paragraph counter, table nesting depth or table grids.
PeekAheadIsolation ==
    [][\A i \in 1..Len(ctxs) :
           AwaitsScratch(i) =>
               LiveView(ctxs'[i], linkAccumulator') = LiveView(ctxs[i], linkAccumulator)]_vars

\* a scratch render that has emitted text and registered a citation, above a
\* live context that holds text and a citation of its own
ScratchAtWork ==
    /\ Len(ctxs) >= 2
    /\ Last(ctxs).kind = "scratch"
    /\ Last(ctxs).buf # <<>>
    /\ AccOf(Last(ctxs), linkAccumulator).linkArray # <<>>
    /\ ctxs[Len(ctxs) - 1].kind # "scratch"
    /\ ctxs[Len(ctxs) - 1].buf # <<>>
    /\ AccOf(ctxs[Len(ctxs) - 1], linkAccumulator).linkArray # <<>>

\* the text below a node, in document order
RECURSIVE TextOf(_)
TextOf(n) ==
    IF n.type = "text" THEN n.data
    ELSE Concat([i \in 1..Len(n.kids) |-> TextOf(n.kids[i])])

\* the text of a node as the body shows it: runs of white space collapsed,
\* surrounding white space dropped
VisibleText(n) == TrimSpace(spacingReReplace(TextOf(n)))

\* the tree is one block
OnlyBlock == doc.kids[1]

IsElement(n, atom) == n.type = "elem" /\ n.atom = atom

\* an anchor around one text node
IsTextLink(n) ==
    IsElement(n, "a") /\ Len(n.kids) = 1 /\ n.kids[1].type = "text"

\* the caller asked for links: options given, links not omitted
LinksWanted == call.given /\ ~call.options.OmitLinks

\* the tree is a paragraph holding one link whose text is under the word
\* threshold
ShortLinkParagraph ==
    /\ Len(doc.kids) = 1
    /\ IsElement(OnlyBlock, "p")
    /\ Len(OnlyBlock.kids) = 1
    /\ IsTextLink(OnlyBlock.kids[1])
    /\ SplitLen(VisibleText(OnlyBlock)) < call.options.ListItemToLinkWordThreshold

\* C7 (single link line): a paragraph whose only content is one link with
\* text under the word threshold renders as exactly the line "=> url text",
\* one space on either side of the url, and nothing else.
ShortLinkParagraphIsOneLinkLine ==
    (Done /\ LinksWanted /\ ShortLinkParagraph) =>
        Last(results) = Concat(<< <<"=", ">", SP>>, OnlyBlock.kids[1].href,
                                  <<SP>>, VisibleText(OnlyBlock) >>)

\* the tree is one preformatted block holding text only
PreOfText ==
    /\ Len(doc.kids) = 1
    /\ IsElement(OnlyBlock, "pre")
    /\ \A i \in 1..Len(OnlyBlock.kids) : OnlyBlock.kids[i].type = "text"

\* C8 (preformatted text verbatim): the text of a preformatted block stands
\* between the two fence lines exactly as in the source, every space, tab
\* and newline kept.
PreIsVerbatim ==
    (Done /\ PreOfText) =>
        Last(results) = Concat(<< <<BT, BT, BT, NL>>, TextOf(OnlyBlock),
                                  <<NL, BT, BT, BT>> >>)

\* only text and inline wrappers below the node
RECURSIVE IsInlineText(_)
IsInlineText(n) ==
    \/ n.type = "text"
    \/ /\ IsElement(n, "span")
       /\ \A i \in 1..Len(n.kids) : IsInlineText(n.kids[i])

\* the tree is one anchor around text, with an href that is not empty, not a
\* fragment and not its own text
CitedAnchor ==
    /\ Len(doc.kids) = 1
    /\ IsElement(OnlyBlock, "a")
    /\ \A i \in 1..Len(OnlyBlock.kids) : IsInlineText(OnlyBlock.kids[i])
    /\ normalizeHrefLink(OnlyBlock.href) # <<>>
    /\ OnlyBlock.href[1] # "#"
    /\ VisibleText(OnlyBlock) # normalizeHrefLink(OnlyBlock.href)

\* text [n], blank line, "=> url [n] text"
CitedAs(text, cit) ==
    Concat(<< text, <<SP>>, formatGeminiCitation(cit.index, TRUE), <<NL, NL>>,
              <<"=", ">", SP>>, cit.url, <<SP>>,
              formatGeminiCitation(cit.index, TRUE), <<SP>>, text >>)

\* C9 (anchor citation): an anchor with an href that is not empty, not a
\* fragment and not its text registers exactly one citation; with markers on
\* the body shows the anchor's text followed by [n] and the link line reads
\* "=> url [n] text" with the same text, also when the text is wrapped in an
\* inline element or surrounded by white space.
AnchorIsCited ==
    (Done /\ LinksWanted /\ CitedAnchor
          /\ call.options.CitationMarkers /\ call.options.NumberedLinks) =>
        /\ Len(Registered) = 1
        /\ Last(results) = CitedAs(VisibleText(OnlyBlock), Registered[1].cit)

\* C10 (no raw space in a url): no registered citation has a space in its
\* url.
NoRawSpaceInUrl ==
    \A i \in 1..Len(regLog) :
        \A k \in 1..Len(regLog[i].cit.url) : regLog[i].cit.url[k] # SP

\* the paths of the nodes at and below the node at path
RECURSIVE PathsBelow(_)
PathsBelow(path) ==
    {path} \cup UNION {PathsBelow(Append(path, i)) :
                          i \in 1..Len(NodeAt(doc, path).kids)}

\* the text nodes that show text
TextPaths ==
    {p \in PathsBelow(<<>>) :
        NodeAt(doc, p).type = "text" /\ VisibleText(NodeAt(doc, p)) # <<>>}

\* number of blockquotes around the node at path
QuoteDepth(path) ==
    Cardinality({k \in 1..Len(path) :
                    IsElement(NodeAt(doc, SubSeq(path, 1, k)), "blockquote")})

\* a line shows the text of the node at path
Shows(line, path) == Contains(line, VisibleText(NodeAt(doc, path)))

\* texts at different quote depths can be told apart in the output
TextsTellDepth ==
    \A p \in TextPaths, r \in TextPaths :
        QuoteDepth(p) # QuoteDepth(r) =>
            ~Contains(VisibleText(NodeAt(doc, p)), VisibleText(NodeAt(doc, r)))

\* the lines of the returned text that are not link lines
BodyLines == SelectSeq(Lines(Last(results)), LAMBDA l : ~IsLinkLine(l))

\* C11 (quote markers): a line that shows text from inside blockquotes
\* nested d deep begins with d times ">" and a space; a line that shows
\* only text from outside every blockquote does not begin with ">".
QuoteMarkersMatchDepth ==
    (Done /\ TextsTellDepth) =>
        \A k \in 1..Len(BodyLines) :
            /\ \A p \in TextPaths :
                   (Shows(BodyLines[k], p) /\ QuoteDepth(p) >= 1) =>
                       HasPrefix(BodyLines[k],
                                 Repeat(<<">">>, QuoteDepth(p)) \o <<SP>>)
            /\ ((\E p \in TextPaths : Shows(BodyLines[k], p))
                /\ (\A r \in TextPaths :
                        Shows(BodyLines[k], r) => QuoteDepth(r) = 0))
                   => ~HasPrefix(BodyLines[k], <<">">>)

\* a list item holding text only
IsTextItem(n) ==
    /\ IsElement(n, "li")
    /\ n.kids # <<>>
    /\ \A i \in 1..Len(n.kids) : n.kids[i].type = "text"
    /\ VisibleText(n) # <<>>

\* the tree is an unordered list of text items, alone or followed by text
ListOfTextItems ==
    /\ Len(doc.kids) \in {1, 2}
    /\ IsElement(OnlyBlock, "ul")
    /\ OnlyBlock.kids # <<>>
    /\ \A i \in 1..Len(OnlyBlock.kids) : IsTextItem(OnlyBlock.kids[i])
    /\ Len(doc.kids) = 2 =>
           (doc.kids[2].type = "text" /\ VisibleText(doc.kids[2]) # <<>>)

\* one line "* text" per item, then a blank line and the following text
ListText ==
    Concat([i \in 1..Len(OnlyBlock.kids) |->
               (IF i = 1 THEN <<>> ELSE <<NL>>)
               \o (<<"*", SP>> \o VisibleText(OnlyBlock.kids[i]))])
    \o (IF Len(doc.kids) = 2 THEN <<NL, NL>> \o VisibleText(doc.kids[2])
        ELSE <<>>)

\* C12 (list items): a list item without a link is a line of its own, "* "
\* and the item's text with white space collapsed; the items stand on
\* consecutive lines and one blank line separates the list from the text
\* after it.
ListItemsAreBulletLines ==
    (Done /\ ListOfTextItems) => Last(results) = ListText

\* a paragraph of text and links around text
IsParagraph(n) ==
    /\ IsElement(n, "p")
    /\ n.kids # <<>>
    /\ \A i \in 1..Len(n.kids) : n.kids[i].type = "text" \/ IsTextLink(n.kids[i])
    /\ VisibleText(n.kids[1]) # <<>>

\* the tree is two adjacent paragraphs
TwoParagraphs ==
    /\ Len(doc.kids) = 2
    /\ IsParagraph(doc.kids[1])
    /\ IsParagraph(doc.kids[2])

\* the lines of the text that show the first text of the second paragraph
SecondStarts ==
    {k \in 1..Len(Lines(Last(results))) :
        Contains(Lines(Last(results))[k], VisibleText(doc.kids[2].kids[1]))}

\* the tree is a paragraph of two texts with a br between them
BrokenParagraph ==
    /\ Len(doc.kids) = 1
    /\ IsElement(OnlyBlock, "p")
    /\ Len(OnlyBlock.kids) = 3
    /\ OnlyBlock.kids[1].type = "text"
    /\ IsElement(OnlyBlock.kids[2], "br")
    /\ OnlyBlock.kids[3].type = "text"

\* C13 (paragraph separation): the second of two adjacent paragraphs starts
\* after exactly one blank line, with or without links in the paragraphs,
\* and a br inside a paragraph gives a single line break.
ParagraphsOneBlankLineApart ==
    /\ (Done /\ TwoParagraphs) =>
           /\ SecondStarts # {}
           /\ LET k == MinOf(SecondStarts)
                  lines == Lines(Last(results))
              IN k >= 3 /\ lines[k - 1] = <<>> /\ lines[k - 2] # <<>>
    /\ (Done /\ BrokenParagraph) =>
           Last(results) = (VisibleText(OnlyBlock.kids[1]) \o <<NL>>)
                           \o VisibleText(OnlyBlock.kids[3])

\* C14 (newline runs): no returned text holds three or more newlines in a
\* row.
NoThreeNewlines ==
    \A i \in 1..Len(results) :
        results[i] # PanicValue => ~Contains(results[i], <<NL, NL, NL>>)

\* the data of the text nodes at and below a node, in document order
RECURSIVE RawTexts(_)
RawTexts(n) ==
    IF n.type = "text" THEN <<n.data>>
    ELSE Concat([i \in 1..Len(n.kids) |-> RawTexts(n.kids[i])])

\* the tree is inline text: text nodes that show text, and wrappers of them
InlineDoc ==
    /\ doc.kids # <<>>
    /\ \A i \in 1..Len(doc.kids) : IsInlineText(doc.kids[i])
    /\ \A i \in 1..Len(RawTexts(doc)) : TrimSpace(RawTexts(doc)[i]) # <<>>

\* white space lies between every two neighbouring text nodes
BoundariesSpaced ==
    \A i \in 1..(Len(RawTexts(doc)) - 1) :
        \/ IsSpace(Last(RawTexts(doc)[i]))
        \/ IsSpace(RawTexts(doc)[i + 1][1])

Fragments == [i \in 1..Len(RawTexts(doc)) |->
                 TrimSpace(spacingReReplace(RawTexts(doc)[i]))]

\* what stands between fragment i and the next one: nothing before closing
\* and after opening punctuation, otherwise one space
Separator(i) ==
    IF \/ Fragments[i + 1][1] \in {".", ",", ";", "!", "?", ")", "]", ">"}
       \/ Last(Fragments[i]) \in {"(", "[", "<"}
    THEN <<>> ELSE <<SP>>

InlineText ==
    Concat([i \in 1..Len(Fragments) |->
               IF i = Len(Fragments) THEN Fragments[i]
               ELSE Fragments[i] \o Separator(i)])

\* text nodes whose text reaches the output in one piece: not below an
\* ignored element, not preformatted
RECURSIVE FlowTexts(_)
FlowTexts(path) ==
    LET n == NodeAt(doc, path)
    IN IF n.type = "text"
       THEN (IF VisibleText(n) # <<>> THEN {path} ELSE {})
       ELSE IF n.type = "elem" /\ n.atom \in (IgnoredAtoms \cup {"pre"}) THEN {}
       ELSE UNION {FlowTexts(Append(path, i)) : i \in 1..Len(n.kids)}

\* the returned text with the line breaks of quoted lines taken back
Unwrapped ==
    ReplaceAll(ReplaceAll(Last(results), <<NL, ">", ">", SP>>, <<SP>>),
               <<NL, ">", SP>>, <<SP>>)

Unrendered == {"style", "script", "head"}

\* C16 (ignored elements): the step that handles a style, script or head
\* element goes on with what follows the element: no part of its subtree is
\* scheduled for traversal, the output buffer, the citations and the
\* registration history stay as they were, whatever the subtree holds.
UnrenderedContributeNothing ==
    [][AtElement(Unrendered) =>
           /\ tasks' = Tail(tasks)
           /\ Len(ctxs') = Len(ctxs)
           /\ Last(ctxs').buf = Last(ctxs).buf
           /\ AccOf(Last(ctxs'), linkAccumulator') = AccOf(Last(ctxs), linkAccumulator)
           /\ regLog' = regLog
           /\ results' = results]_vars

\* a script holding an anchor has just been passed by a render that has
\* text in its buffer and a citation registered
ScriptWithAnchorPassed ==
    /\ tasks # <<>>
    /\ cur.op = "traverse"
    /\ Len(cur.path) = 1
    /\ cur.path[1] > 1
    /\ LET s == doc.kids[cur.path[1] - 1]
       IN /\ IsElement(s, "script")
          /\ \E i \in 1..Len(s.kids) : IsElement(s.kids[i], "a")
    /\ Last(ctxs).buf # <<>>
    /\ Registered # <<>>

\* a line of the returned text without its quote marker
Unquoted(line) ==
    LET n == MinOf({i \in 0..Len(line) : i = Len(line) \/ line[i + 1] # ">"})
    IN IF n < Len(line) /\ line[n + 1] = SP THEN Drop(line, n + 1)
       ELSE Drop(line, n)

\* the content of the quoted lines of the returned text, in order
QuotedLines ==
    LET quoted == SelectSeq(Lines(Last(results)), LAMBDA l : HasPrefix(l, <<">">>))
    IN [k \in 1..Len(quoted) |-> Unquoted(quoted[k])]

\* a line is longer than the limit although it has white space to break at
\* on the way to the limit
OverlongWithBreak(line) ==
    /\ Len(line) > maxLineLen
    /\ \E i \in 1..(maxLineLen + 1) : IsSpace(line[i])

\* C18 as stated: no quoted line is longer than 74 characters when it has
\* white space to break at, the space between two fragments included.
QuotedLinesWithinLimit ==
    Done => \A k \in 1..Len(QuotedLines) : ~OverlongWithBreak(QuotedLines[k])

NonSpace(s) == SelectSeq(s, LAMBDA ch : ~IsSpace(ch))

\* text, or an inline element around text
IsFragment(n) ==
    \/ n.type = "text"
    \/ IsElement(n, "span") /\ Len(n.kids) = 1 /\ n.kids[1].type = "text"

\* the tree is one blockquote made of fragments
QuoteOfFragments ==
    /\ Len(doc.kids) = 1
    /\ IsElement(OnlyBlock, "blockquote")
    /\ \A i \in 1..Len(OnlyBlock.kids) : IsFragment(OnlyBlock.kids[i])

\* the fragments are single words
QuoteOfWords ==
    /\ QuoteOfFragments
    /\ \A i \in 1..Len(OnlyBlock.kids) :
           LET w == VisibleText(OnlyBlock.kids[i])
           IN w # <<>> /\ NonSpace(w) = w

\* C18 as amended: a fragment is wrapped at white space inside it, so a
\* quoted line made of one text is no longer than 74 characters when that
\* text has white space to break at; between two fragments the line is
\* broken only once it holds 74 characters or more, so lines of single-word
\* fragments are all, but the last, at least that long; wrapping changes
\* white space only: the other characters of the quote stand in the quoted
\* lines in their order, each once.
WrapsInsideFragments ==
    Done =>
        /\ (QuoteOfFragments /\ Len(OnlyBlock.kids) = 1) =>
               \A k \in 1..Len(QuotedLines) : ~OverlongWithBreak(QuotedLines[k])
        /\ QuoteOfWords =>
               \A k \in 2..(Len(QuotedLines) - 1) :
                   Len(QuotedLines[k]) >= maxLineLen
        /\ QuoteOfFragments =>
               NonSpace(Concat(QuotedLines)) = NonSpace(TextOf(doc))

\* a quote of one text longer than a line has been wrapped at its white space
QuoteWrapped ==
    /\ Done
    /\ QuoteOfFragments
    /\ Len(OnlyBlock.kids) = 1
    /\ Len(VisibleText(OnlyBlock)) > maxLineLen
    /\ Len(QuotedLines) >= 3
    /\ \A k \in 1..Len(QuotedLines) : Len(QuotedLines[k]) <= maxLineLen

\* the context that is about to call CheckFlushCitations
BoundaryCtx == IF At("peekReturn") THEN ctxs[Len(ctxs) - 1] ELSE Last(ctxs)

\* the next step opens a paragraph-like block: a list, a paragraph (in the
\* README listing one of mixed content, after its scratch render), a table
\* rendered as text
AtBoundary ==
    \/ AtElement(IF variant = 1 THEN {"p", "ul"} ELSE {"ul"})
    \/ AtElement({"table"}) /\ ~Last(ctxs).options.PrettyTables
    \/ /\ At("peekReturn")
       /\ node.atom = "p"
       /\ Len(AccOf(Last(ctxs), linkAccumulator).linkArray) # 0
       /\ ~singleLink(Last(ctxs), linkAccumulator, BoundaryCtx.options)

AccBefore == AccOf(BoundaryCtx, linkAccumulator)

\* a citation lies beyond flushedToIndex
Pending == Len(AccBefore.linkArray) > AccBefore.flushedToIndex + 1

\* what the step appends to the buffer
Appended == Drop(Last(ctxs').buf, Len(BoundaryCtx.buf))

\* the step writes the pending link lines and resets the counters
FlushesAtStep ==
    LET after == AccOf(Last(ctxs'), linkAccumulator')
    IN /\ after.emitParaCount = 0
       /\ after.flushedToIndex = Len(AccBefore.linkArray) - 1
       /\ Contains(Appended, linkLines(AccBefore.linkArray, AccBefore.flushedToIndex,
                                       BoundaryCtx.options.NumberedLinks))

\* the step counts the boundary and writes no link line
CountsAtStep ==
    LET after == AccOf(Last(ctxs'), linkAccumulator')
    IN /\ after.emitParaCount = AccBefore.emitParaCount + 1
       /\ after.flushedToIndex = AccBefore.flushedToIndex
       /\ ~Contains(Appended, <<"=", ">", SP>>)

\* C19 as stated: at a paragraph-like boundary outside tables the count is
\* incremented first, and the step flushes exactly if the incremented count
\* exceeds LinkEmitFrequency and a citation is pending.
FlushOnIncrementedCount ==
    [][(AtBoundary /\ AccBefore.tableNestLevel = 0) =>
           IF /\ AccBefore.emitParaCount + 1 > BoundaryCtx.options.LinkEmitFrequency
              /\ Pending
           THEN FlushesAtStep ELSE CountsAtStep]_vars

\* C19 as amended: at a paragraph-like boundary the step flushes exactly if
\* the count of the boundaries before this one exceeds LinkEmitFrequency and
\* a citation is pending, and otherwise adds one to the count; inside a
\* table the flush writes nothing and changes no counter.
FlushOnCountBeyondFrequency ==
    [][AtBoundary =>
           IF /\ AccBefore.emitParaCount > BoundaryCtx.options.LinkEmitFrequency
              /\ Pending
           THEN IF AccBefore.tableNestLevel > 0
                THEN AccOf(Last(ctxs'), linkAccumulator') = AccBefore
                ELSE FlushesAtStep
           ELSE CountsAtStep]_vars

\* in the middle of a render without headings and quotes the citations have
\* been flushed at a boundary: link lines stand in the buffer, nothing is
\* pending, the count is back at zero
FlushedAtBoundary ==
    /\ tasks # <<>>
    /\ Len(ctxs) = 1
    /\ results = <<>>
    /\ \A i \in 1..Len(doc.kids) :
           doc.kids[i].type = "elem" /\ doc.kids[i].atom \in {"p", "ul"}
    /\ LET a == AccOf(ctxs[1], linkAccumulator)
       IN /\ a.linkArray # <<>>
          /\ a.flushedToIndex = Len(a.linkArray) - 1
          /\ a.emitParaCount = 0
    /\ Contains(ctxs[1].buf, <<NL, "=", ">", SP>>)

\* the node at path lies in a table
InTable(path) ==
    \E k \in 1..Len(path) :
        LET n == NodeAt(doc, SubSeq(path, 1, k))
        IN n.type = "elem" /\ n.atom \in TableAtoms

\* the next step enters a heading or a blockquote outside every table
AtSectionEntry ==
    /\ AtElement({"h1", "h2", "h3", "blockquote"})
    /\ Len(ctxs) = 1
    /\ ~InTable(cur.path)
    /\ Acc(Machine).tableNestLevel = 0

\* C20 (citations do not span sections): the step that enters a heading or
\* a blockquote outside every table, citations being registered, leaves the
\* link line of every citation registered so far in the buffer, where the text of the heading or quote
\* is yet to come, and flushedToIndex at the last registered citation.
SectionEntryFlushesAll ==
    [][(AtSectionEntry /\ Registered # <<>>) =>
           LET after == AccOf(Last(ctxs'), linkAccumulator')
           IN /\ after.flushedToIndex = Len(after.linkArray) - 1
              /\ \A i \in 1..Len(Registered) :
                     Occurrences(Last(ctxs').buf, LineOf(Registered[i].cit)) >= 1]_vars

\* a heading or quote has just been entered after a citation was
\* registered: its link line is the end of the buffer but for the opening
\* of the section, and nothing is pending
SectionEnteredAfterCitation ==
    /\ tasks # <<>>
    /\ Len(ctxs) = 1
    /\ Registered # <<>>
    /\ cur.op = "traverse"
    /\ Len(cur.path) = 2
    /\ cur.path[2] = 1
    /\ NodeAt(doc, <<cur.path[1]>>).type = "elem"
    /\ NodeAt(doc, <<cur.path[1]>>).atom \in {"h1", "h2", "h3", "blockquote"}
    /\ LET a == AccOf(ctxs[1], linkAccumulator)
           line == linkLine(Registered[Len(Registered)].cit,
                            ctxs[1].options.NumberedLinks)
       IN /\ a.flushedToIndex = Len(a.linkArray) - 1
          /\ Contains(ctxs[1].buf, line)
          /\ ~Contains(SubSeq(ctxs[1].buf, 1, Len(ctxs[1].buf) - 8), line)

\* the node at path lies below a table element
BelowTable(path) ==
    \E k \in 1..(Len(path) - 1) :
        IsElement(NodeAt(doc, SubSeq(path, 1, k)), "table")

\* the next step of the walk is taken inside a table laid out as a grid
StepInTable ==
    /\ tasks # <<>>
    /\ ctxs # <<>>
    /\ ctxs[1].options.PrettyTables
    /\ BelowTable(cur.path)

\* the contexts that are there before and after the step
Staying == 1..Min(Len(ctxs), Len(ctxs'))

\* the registered citations of table cells
CellCitations == SelectSeq(regLog, LAMBDA e : e.kind = "cell")

\* C21 (no flush inside tables): a step taken inside a table writes no
\* link line to any buffer, moves no flushedToIndex and resets no
\* emitParaCount, whichever flush is asked for; the citations registered in
\* the cells are written once the table is closed: they stand in the
\* buffer after the next heading or blockquote is entered outside tables,
\* and in the text the render returns.
TableDefersFlush ==
    [][/\ StepInTable =>
           \A i \in Staying :
               /\ ~Contains(Drop(ctxs'[i].buf, Len(ctxs[i].buf)), <<"=", ">", SP>>)
               /\ AccOf(ctxs'[i], linkAccumulator').flushedToIndex
                      = AccOf(ctxs[i], linkAccumulator).flushedToIndex
               /\ AccOf(ctxs'[i], linkAccumulator').emitParaCount
                      >= AccOf(ctxs[i], linkAccumulator).emitParaCount
       /\ AtSectionEntry =>
           \A i \in 1..Len(CellCitations) :
               Occurrences(Last(ctxs').buf, LineOf(CellCitations[i].cit)) >= 1
       /\ (At("return") /\ ctxs[1].options.PrettyTables) =>
           \A i \in 1..Len(CellCitations) :
               Occurrences(Last(results'), LineOf(CellCitations[i].cit)) >= 1]_vars

\* inside a table a flush has been asked for with a citation pending, and
\* nothing was written: the walk stands in a cell behind a heading, the
\* citation registered before the heading is beyond flushedToIndex
FlushHeldBackInTable ==
    /\ StepInTable
    /\ cur.op = "traverse"
    /\ IsElement(node, "ul")
    /\ \E k \in 1..(Last(cur.path) - 1) :
           IsElement(NodeAt(doc, Append(SubSeq(cur.path, 1, Len(cur.path) - 1), k)), "h3")
    /\ LET a == Acc(Machine)
       IN /\ a.tableNestLevel > 0
          /\ Len(a.linkArray) > a.flushedToIndex + 1
    /\ ~Contains(Last(ctxs).buf, <<"=", ">", SP>>)

\* the link line of the citation at 0-based position j of context c
LineAt(c, g, j) == linkLine(AccOf(c, g).linkArray[j + 1], c.options.NumberedLinks)

\* C22 (flush cursor): in every context, from its construction on,
\* flushedToIndex is at most the position of the last registered citation;
\* no step of a render lowers it; and no step writes the link line of a
\* citation at a position up to flushedToIndex again (a line that a
\* pending citation shares is left out).
FlushCursorMonotone ==
    [][/\ \A i \in 1..Len(ctxs') :
              AccOf(ctxs'[i], linkAccumulator').flushedToIndex
                  <= Len(AccOf(ctxs'[i], linkAccumulator').linkArray) - 1
       /\ tasks # <<>> =>
              \A i \in Staying :
                  LET a == AccOf(ctxs[i], linkAccumulator)
                      b == AccOf(ctxs'[i], linkAccumulator')
                  IN /\ b.flushedToIndex >= a.flushedToIndex
                     /\ \A j \in 0..Min(a.flushedToIndex, Len(a.linkArray) - 1) :
                            (\A k \in (a.flushedToIndex + 1)..(Len(b.linkArray) - 1) :
                                 LineAt(ctxs'[i], linkAccumulator', k)
                                     # LineAt(ctxs[i], linkAccumulator, j))
                            => ~Contains(Drop(ctxs'[i].buf, Len(ctxs[i].buf)),
                                         LineAt(ctxs[i], linkAccumulator, j))]_vars

\* a context has flushed its citations and holds a later one that is pending
FlushedAndPendingAgain ==
    /\ tasks # <<>>
    /\ Len(ctxs) = 1
    /\ LET a == AccOf(ctxs[1], linkAccumulator)
       IN /\ a.flushedToIndex >= 0
          /\ Len(a.linkArray) > a.flushedToIndex + 1
    /\ Contains(ctxs[1].buf, <<NL, "=", ">", SP>>)

\* the next step enters a heading or a blockquote, which asks for a flush,
\* outside tables and with no citation beyond flushedToIndex
AtIdleFlush ==
    /\ AtElement({"h1", "h2", "h3", "blockquote"})
    /\ Acc(Machine).tableNestLevel = 0
    /\ Len(Acc(Machine).linkArray) = Acc(Machine).flushedToIndex + 1

\* what entering the heading or blockquote writes by itself
OpensSection(m) ==
    IF node.atom = "blockquote"
    THEN LET level == m.c.blockquoteLevel + 1
             m2 == [m EXCEPT !.c.blockquoteLevel = level,
                             !.c.prefix = Repeat(<<">">>, level) \o <<SP>>]
         IN IF variant = 2 THEN m2
            ELSE IF level = 1 THEN emit(emit(m2, <<NL>>), <<NL>>)
            ELSE emit(m2, <<NL>>)
    ELSE emit(m, headingBreak \o headingPrefix(node.atom))

\* C23 (idle flush): a flush asked for when no citation lies beyond
\* flushedToIndex appends nothing to the buffer, neither a link line nor
\* separating newlines, and leaves flushedToIndex as it is: entering a
\* heading or blockquote then writes what the heading or quote opens with.
IdleFlushWritesNothing ==
    [][AtIdleFlush =>
           /\ Last(ctxs').buf = OpensSection(enter(Machine)).c.buf
           /\ AccOf(Last(ctxs'), linkAccumulator').flushedToIndex
                  = Acc(Machine).flushedToIndex]_vars

\* a heading has been entered with text in the buffer and all citations
\* flushed before
SectionEnteredIdle ==
    /\ tasks # <<>>
    /\ cur.op = "traverse"
    /\ Len(cur.path) = 2
    /\ cur.path[1] > 1
    /\ IsElement(NodeAt(doc, <<cur.path[1]>>), "h2")
    /\ cur.path[2] = 1
    /\ Registered = <<>>
    /\ Len(Last(ctxs).buf) > 8

\* number of words of a text: the maximal runs of characters other than
\* white space
WordCount(s) ==
    Cardinality({i \in 1..Len(s) : ~IsSpace(s[i]) /\ (i = 1 \/ IsSpace(s[i - 1]))})

\* C24 (collapse of a block): when the scratch render of a list item or
\* paragraph has returned, the block becomes one link line exactly if the
\* scratch render registered one citation and its text has fewer words
\* than ListItemToLinkWordThreshold; with no citation the text of the
\* scratch render is emitted; in every other case the children are
\* traversed again into the live context.
OneLinkBlockCollapses ==
    [][At("peekReturn") =>
           LET scratch == Last(ctxs)
               m == [c |-> ctxs[Len(ctxs) - 1], g |-> linkAccumulator, log |-> regLog]
               links == AccOf(scratch, linkAccumulator).linkArray
               bullet == IF node.atom = "li" THEN <<"*", SP>> ELSE <<>>
           IN IF /\ Len(links) = 1
                 /\ WordCount(scratch.buf) < m.c.options.ListItemToLinkWordThreshold
              THEN /\ tasks' = rest
                   /\ Last(ctxs').buf
                          = emit(m, Concat(<< <<"=", ">", SP>>, links[1].url, <<SP>>,
                                              scratch.buf, <<NL>> >>)).c.buf
              ELSE IF Len(links) = 0
              THEN /\ tasks' = rest
                   /\ Last(ctxs').buf = emit(m, (bullet \o scratch.buf) \o <<NL>>).c.buf
              ELSE /\ Len(tasks') = Len(rest) + Len(node.kids) + 1
                   /\ \A i \in 1..Len(node.kids) :
                          tasks'[i] = Task("traverse", Append(cur.path, i))]_vars

\* the scratch render of a block has returned with one citation and fewer
\* words than the threshold, which is not zero
OneLinkBelowThreshold ==
    /\ At("peekReturn")
    /\ Len(AccOf(Last(ctxs), linkAccumulator).linkArray) = 1
    /\ ctxs[Len(ctxs) - 1].options.ListItemToLinkWordThreshold > 0
    /\ WordCount(Last(ctxs).buf)
          < ctxs[Len(ctxs) - 1].options.ListItemToLinkWordThreshold

\* number of lines of a text that start with a code fence
FenceLines(s) ==
    Cardinality({i \in 1..(Len(s) - 2) :
                    /\ HasPrefixAt(s, i, <<BT, BT, BT>>)
                    /\ (i = 1 \/ s[i - 1] = NL)})

\* the tables the current position is inside of, the current one left out
EnclosingTables == Cardinality({i \in 2..Len(tasks) : tasks[i].op = "exitTable"})

\* the text a step appends to the buffer of the current context holds n
\* fence lines
StepAddsFences(n) ==
    /\ Len(ctxs') = Len(ctxs)
    /\ FenceLines(Last(ctxs').buf) = FenceLines(Last(ctxs).buf) + n

\* C25 (fences and nesting counter): with PrettyTables, a table that is
\* inside no other table writes one fence line when it is entered and one
\* after its grid when it is left, and a table inside another table writes
\* none; the
\* nesting counter goes up by one on entry and comes back to its value on
\* exit, so during a render it is the number of tables entered and not yet
\* left, and it is 0 when the top-level render returns.
FencesAndCounterBalanced ==
    [][/\ (AtElement({"table"}) /\ prettyTables)
             => /\ StepAddsFences(IF EnclosingTables = 0 THEN 1 ELSE 0)
                /\ AccOf(Last(ctxs'), linkAccumulator').tableNestLevel
                      = EnclosingTables + 1
       /\ At("exitTable")
             => /\ Len(ctxs') = Len(ctxs)
                /\ FenceLines(Last(ctxs').buf)
                      = FenceLines(emit(Machine, tableRender(Machine.c.tableCtx)).c.buf)
                        + (IF EnclosingTables = 0 THEN 1 ELSE 0)
                /\ AccOf(Last(ctxs'), linkAccumulator').tableNestLevel
                      = EnclosingTables
       /\ (At("return") /\ prettyTables)
             => AccOf(Last(ctxs), linkAccumulator).tableNestLevel = 0]_vars

\* a table inside a cell of another table is being left, PrettyTables set
NestedTableLeft ==
    /\ At("exitTable")
    /\ prettyTables
    /\ EnclosingTables = 1
    /\ AccOf(Last(ctxs), linkAccumulator).tableNestLevel = 2

\* a table row of the table being laid out is open
RowOpen == \E i \in 2..Len(tasks) : tasks[i].op = "exitTr"

\* C26 (row cursor): with PrettyTables, a data cell outside the footer is
\* appended only when tmpRow is an index into body, the index of the row
\* the enclosing table row pushed, which is the last one; a table row
\* pushes one empty row when it is entered and moves tmpRow up by one when
\* it is left; while no row is open tmpRow is the number of rows of body.
RowCursorFollowsRows ==
    [][/\ (At("cellDone") /\ node.atom = "td" /\ ~Last(ctxs).tableCtx.isInFooter)
             => /\ ~Panicked'
                /\ Last(ctxs).tableCtx.tmpRow < Len(Last(ctxs).tableCtx.body)
                /\ Last(ctxs).tableCtx.tmpRow + 1 = Len(Last(ctxs).tableCtx.body)
                /\ Last(ctxs').tableCtx.body[Len(Last(ctxs).tableCtx.body)]
                      = Append(Last(Last(ctxs).tableCtx.body), Last(ctxs).cellBuf)
       /\ (AtElement({"tr"}) /\ prettyTables)
             => /\ Last(ctxs').tableCtx.body = Append(Last(ctxs).tableCtx.body, <<>>)
                /\ Last(ctxs').tableCtx.tmpRow = Last(ctxs).tableCtx.tmpRow
       /\ At("exitTr")
             => /\ Last(ctxs').tableCtx.body = Last(ctxs).tableCtx.body
                /\ Last(ctxs').tableCtx.tmpRow = Last(ctxs).tableCtx.tmpRow + 1
       /\ (tasks # <<>> /\ ctxs # <<>> /\ prettyTables /\ ~RowOpen)
             => Last(ctxs).tableCtx.tmpRow = Len(Last(ctxs).tableCtx.body)]_vars

\* a data cell outside the footer is about to be put into the grid
DataCellRendered ==
    /\ At("cellDone")
    /\ node.atom = "td"
    /\ ~Last(ctxs).tableCtx.isInFooter
    /\ Last(ctxs).cellBuf # <<>>

\* the buffers of the contexts below the running one
EnclosingBufs(cs) == [i \in 1..(Len(cs) - 1) |-> cs[i].buf]

\* C27 (a cell is rendered alone): the render of a cell child starts with
\* an empty buffer, at the start of a line, outside every quote, so its text
\* holds nothing that was emitted before the cell and does not depend on
\* what precedes the table; when it returns the buffers of the enclosing
\* contexts are what they were, and the text put into the grid is the text
\* collected from the children of the cell.
CellRenderedAlone ==
    [][/\ At("cellChild")
             => /\ Last(ctxs').buf = <<>>
                /\ Last(ctxs').lineLength = 0
                /\ Last(ctxs').prefix = <<>>
                /\ Last(ctxs').blockquoteLevel = 0
                /\ EnclosingBufs(ctxs') = [i \in 1..Len(ctxs) |-> ctxs[i].buf]
       /\ At("cellReturn")
             => /\ EnclosingBufs(ctxs) = [i \in 1..Len(ctxs') |-> ctxs'[i].buf]
                /\ HasPrefix(Last(ctxs').cellBuf, ctxs[Len(ctxs) - 1].cellBuf)
       /\ (At("cellDone") /\ ~Panicked')
             => /\ [i \in 1..Len(ctxs') |-> ctxs'[i].buf] = [i \in 1..Len(ctxs) |-> ctxs[i].buf]
                /\ LET t == Last(ctxs').tableCtx
                       cell == Last(ctxs).cellBuf
                   IN \/ t.header # <<>> /\ Last(t.header) = cell
                      \/ t.footer # <<>> /\ Last(t.footer) = cell
                      \/ \E r \in 1..Len(t.body) :
                             t.body[r] # <<>> /\ Last(t.body[r]) = cell]_vars

\* a cell child is about to be rendered while the buffer of the table's
\* context holds text
CellAfterText ==
    /\ At("cellChild")
    /\ \E i \in 1..Len(Last(ctxs).buf) : ~IsSpace(Last(ctxs).buf[i])

\* the buffer ends in white space, or in one of the characters ( [ < that
\* emit records like white space
EndsOpen(buf) ==
    buf # <<>> /\ (IsSpace(Last(buf)) \/ punctNoSpaceAfter(Last(buf)))

\* the next step emits the text of a text node
AtText == At("traverse") /\ node.type = "text"

\* C28 (space separator): the emit of the text of a text node puts exactly
\* one space before it if the text starts with neither white space nor one
\* of . , ; ! ? ) ] > and the buffer does not end in white space, and no
\* space otherwise; the emit of an empty text changes nothing; after every
\* step, flushes included, endsWithSpace of each context tells how the
\* text in its buffer ends.
SpaceFlagTracksBuffer ==
    [][/\ \A i \in 1..Len(ctxs') :
              ctxs'[i].buf # <<>> => (ctxs'[i].endsWithSpace <=> EndsOpen(ctxs'[i].buf))
       /\ AtText =>
              LET d == textData(Last(ctxs), node.data)
                  buf == Last(ctxs).buf
              IN IF d = <<>> THEN ctxs' = ctxs
                 ELSE IF /\ ~(IsSpace(d[1]) \/ punctNoSpaceBefore(d[1]))
                         /\ ~EndsOpen(buf)
                 THEN HasPrefixAt(Last(ctxs').buf, Len(buf) + 1, <<SP, d[1]>>)
                 ELSE HasPrefixAt(Last(ctxs').buf, Len(buf) + 1, <<d[1]>>)]_vars

\* the text of a text node is about to be emitted into a buffer that ends
\* with the newline a flush wrote, endsWithSpace being as it was before
\* the flush
TextAfterFlush ==
    /\ AtText
    /\ textData(Last(ctxs), node.data) # <<>>
    /\ Last(ctxs).buf # <<>>
    /\ Last(Last(ctxs).buf) = NL
    /\ ~Last(ctxs).endsWithSpace

\* the line prefix that belongs to a quote depth
QuotePrefix(depth) ==
    [i \in 1..(IF depth > 0 THEN depth + 1 ELSE 0) |->
        IF i <= depth THEN ">" ELSE SP]

\* the tasks of the call that owns the running context
OwnTasks ==
    SubSeq(tasks, 1,
           Min(Len(tasks),
               MinOf({i \in 1..Len(tasks) :
                         tasks[i].op \in {"return", "cellReturn", "peekReturn"}}
                     \cup {Len(tasks)})))

\* the blockquotes the running call has entered and not left
OpenQuotes ==
    Cardinality({i \in 1..Len(OwnTasks) : OwnTasks[i].op = "exitBlockquote"})

\* the quote depth the running context started with: a cell context of
\* variant 2 starts as a copy of its caller, every other context at 0
StartDepth ==
    IF variant = 2 /\ Len(ctxs) > 1 /\ Last(ctxs).kind = "cell"
    THEN ctxs[Len(ctxs) - 1].blockquoteLevel ELSE 0

\* C29 (blockquote state): in every context the quote depth is not
\* negative and the line prefix is the one of the depth: depth times >
\* and a space, or nothing at depth 0; the depth of the running context is
\* the depth it started with plus the number of blockquotes entered and not
\* left, so leaving a blockquote brings depth and prefix back to what they
\* were before it was entered.
QuoteStateConsistent ==
    /\ \A i \in 1..Len(ctxs) :
          /\ ctxs[i].blockquoteLevel >= 0
          /\ ctxs[i].prefix = QuotePrefix(ctxs[i].blockquoteLevel)
    /\ (tasks # <<>> /\ ctxs # <<>>)
          => Last(ctxs).blockquoteLevel = StartDepth + OpenQuotes

\* the inner of two nested blockquotes has been left and the text that
\* follows it in the outer one comes next
InnerQuoteLeft ==
    /\ AtText
    /\ Last(cur.path) > 1
    /\ IsElement(NodeAt(doc, SubSeq(cur.path, 1, Len(cur.path) - 1)
                               \o <<Last(cur.path) - 1>>), "blockquote")
    /\ Last(ctxs).blockquoteLevel = 1
    /\ Last(ctxs).prefix = <<">", SP>>

\* the positions of a text where a link line marker stands
Markers(r) == {i \in 1..(Len(r) - 2) : HasPrefixAt(r, i, <<"=", ">", SP>>)}

\* the text from position i up to the end of its line
RestOfLine(r, i) ==
    SubSeq(r, i, MinOf({j \in i..Len(r) : r[j] = NL} \cup {Len(r) + 1}) - 1)

\* C30 (link lines): in a returned text every link line marker stands at
\* the start of a line, and its line is the line of one citation: after the
\* marker comes the url of the citation and, further on in the same line,
\* its display text.
LinkLinesWellFormed ==
    (tasks = <<>> /\ results # <<>> /\ ~Panicked) =>
        LET r == Last(results)
        IN \A i \in Markers(r) :
               /\ (i = 1 \/ r[i - 1] = NL)
               /\ \E k \in 1..Len(regLog) :
                      /\ HasPrefixAt(r, i + 3, regLog[k].cit.url)
                      /\ Contains(SubSeq(RestOfLine(r, i),
                                         4 + Len(regLog[k].cit.url),
                                         Len(RestOfLine(r, i))),
                                  TrimSpace(regLog[k].cit.display))

\* a render has returned a text with a link line
LinkLineReturned ==
    /\ tasks = <<>>
    /\ results # <<>>
    /\ ~Panicked
    /\ Markers(Last(results)) # {}
    /\ regLog # <<>>

====
